---------------------------- MODULE Spec2Model ----------------------------
(***************************************************************************)
(* A model of btrfs-backup (src/main.go, the variant built around the     *)
(* type node): listing the snapshots of a node, planning and running the  *)
(* incremental transfers, and the rollback delete after a failed          *)
(* transfer.                                                               *)
(*                                                                         *)
(* Strings are sequences of one-character strings, so that splitting,     *)
(* path cleaning, pattern matching and sorting are computed on the        *)
(* characters as the Go code computes them.                                *)
(***************************************************************************)
EXTENDS Integers, Sequences, FiniteSets, TLC

(***************************************************************************)
(* Bounds of the model.                                                    *)
(***************************************************************************)
\* the largest number of lines of a listing the storage tool returns
MaxLines == 3

(***************************************************************************)
(* Characters and strings.                                                 *)
(***************************************************************************)
\* the line separator "\n" of the listing text
NL == "\n"

\* the byte value of each character the model uses (Go compares strings by bytes)
Ord(c) ==
  CASE c = NL -> 10
    [] c = " " -> 32
    [] c = "-" -> 45
    [] c = "." -> 46
    [] c = "/" -> 47
    [] c = "0" -> 48
    [] c = "1" -> 49
    [] c = "2" -> 50
    [] c = "3" -> 51
    [] c = "4" -> 52
    [] c = "5" -> 53
    [] c = "6" -> 54
    [] c = "7" -> 55
    [] c = "8" -> 56
    [] c = "9" -> 57
    [] c = "C" -> 67
    [] c = "D" -> 68
    [] c = "I" -> 73
    [] c = "_" -> 95
    [] c = "a" -> 97
    [] c = "b" -> 98
    [] c = "c" -> 99
    [] c = "d" -> 100
    [] c = "e" -> 101
    [] c = "f" -> 102
    [] c = "g" -> 103
    [] c = "h" -> 104
    [] c = "i" -> 105
    [] c = "l" -> 108
    [] c = "m" -> 109
    [] c = "n" -> 110
    [] c = "o" -> 111
    [] c = "p" -> 112
    [] c = "q" -> 113
    [] c = "r" -> 114
    [] c = "s" -> 115
    [] c = "t" -> 116
    [] c = "u" -> 117
    [] c = "v" -> 118

Digits == {"0", "1", "2", "3", "4", "5", "6", "7", "8", "9"}

\* the Go operator < on strings: bytewise lexicographic order
RECURSIVE StrLess(_, _)
StrLess(a, b) ==
  IF b = <<>> THEN FALSE
  ELSE IF a = <<>> THEN TRUE
  ELSE IF Head(a) = Head(b) THEN StrLess(Tail(a), Tail(b))
  ELSE Ord(Head(a)) < Ord(Head(b))

\* strings.Split(s, sep) for a one-character separator: the pieces between the
\* separators, empty pieces included; always at least one piece
Split(s, sep) ==
  LET at == {i \in 1..Len(s) : s[i] = sep}
      \* the position of the k-th separator; 0 before the first, Len(s)+1 after the last
      pos(k) == IF k = 0 THEN 0
                ELSE IF k > Cardinality(at) THEN Len(s) + 1
                ELSE CHOOSE i \in at : Cardinality({j \in at : j < i}) = k - 1
  IN [k \in 1..(Cardinality(at) + 1) |-> SubSeq(s, pos(k - 1) + 1, pos(k) - 1)]

\* strings.TrimRight(s, cutset): s without its trailing characters of cutset
RECURSIVE TrimRight(_, _)
TrimRight(s, cutset) ==
  IF s # <<>> /\ s[Len(s)] \in cutset
  THEN TrimRight(SubSeq(s, 1, Len(s) - 1), cutset)
  ELSE s

\* strings.Join(parts, sep)
RECURSIVE JoinStr(_, _)
JoinStr(parts, sep) ==
  IF parts = <<>> THEN <<>>
  ELSE IF Len(parts) = 1 THEN parts[1]
  ELSE parts[1] \o sep \o JoinStr(Tail(parts), sep)

\* the non-empty strings of a sequence of strings, in order
RECURSIVE NonEmptyOnly(_)
NonEmptyOnly(parts) ==
  IF parts = <<>> THEN <<>>
  ELSE IF Head(parts) = <<>> THEN NonEmptyOnly(Tail(parts))
  ELSE <<Head(parts)>> \o NonEmptyOnly(Tail(parts))

(***************************************************************************)
(* Package path: Clean, Split, Join.                                      *)
(***************************************************************************)
\* the elements of a slash-separated path after Clean's rules: empty and "."
\* elements are dropped, ".." removes the element before it (at the root it is
\* dropped, at the start of a relative path it is kept)
RECURSIVE CleanElems(_, _, _)
CleanElems(elems, rooted, acc) ==
  IF elems = <<>> THEN acc
  ELSE LET e == Head(elems)
           rest == Tail(elems)
       IN IF e = <<>> \/ e = <<".">> THEN CleanElems(rest, rooted, acc)
          ELSE IF e = <<".", ".">>
          THEN IF acc # <<>> /\ acc[Len(acc)] # <<".", ".">>
               THEN CleanElems(rest, rooted, SubSeq(acc, 1, Len(acc) - 1))
               ELSE IF rooted THEN CleanElems(rest, rooted, acc)
               ELSE CleanElems(rest, rooted, Append(acc, e))
          ELSE CleanElems(rest, rooted, Append(acc, e))

\* path.Clean(p): the shortest path name equivalent to p; "." for the empty path
PathClean(p) ==
  IF p = <<>> THEN <<".">>
  ELSE LET rooted == Head(p) = "/"
           body == JoinStr(CleanElems(Split(p, "/"), rooted, <<>>), <<"/">>)
       IN IF rooted THEN <<"/">> \o body
          ELSE IF body = <<>> THEN <<".">>
          ELSE body

\* the index of the last "/" of p, 0 when there is none (strings.LastIndex + 1)
LastSlash(p) ==
  LET at == {i \in 1..Len(p) : p[i] = "/"}
  IN IF at = {} THEN 0 ELSE CHOOSE i \in at : \A j \in at : j <= i

\* path.Split(p): the directory (up to and including the last slash) and the file
PathSplit(p) ==
  LET i == LastSlash(p)
  IN [dir |-> SubSeq(p, 1, i), file |-> SubSeq(p, i + 1, Len(p))]

\* path.Join(elems): the non-empty elements joined by slashes and cleaned; the
\* empty string when every element is empty
PathJoin(elems) ==
  LET ne == NonEmptyOnly(elems)
  IN IF ne = <<>> THEN <<>> ELSE PathClean(JoinStr(ne, <<"/">>))


(***************************************************************************)
(* Errors.  A Go error is modelled by its layers, outermost first: every  *)
(* fmt.Errorf("prefix: %v", err) puts one layer in front of err's.  The   *)
(* nil error has no layer.                                                 *)
(***************************************************************************)
NoError == <<>>

\* an error made from a message and, for a parse error, the line it quotes
NewError(text, line) == <<[text |-> text, line |-> line]>>

\* fmt.Errorf(prefix + "%v", err)
Errorf(prefix, err) == NewError(prefix, <<>>) \o err

\* the errors a command execution may end with
ExecErrors == {NewError("exit status 1", <<>>), NewError("exit status 2", <<>>)}

(***************************************************************************)
(* Nodes and command lines.                                                *)
(***************************************************************************)
\* the words of the command lines
W_btrfs == <<"b", "t", "r", "f", "s">>
W_subvolume == <<"s", "u", "b", "v", "o", "l", "u", "m", "e">>
W_list == <<"l", "i", "s", "t">>
W_delete == <<"d", "e", "l", "e", "t", "e">>
W_send == <<"s", "e", "n", "d">>
W_receive == <<"r", "e", "c", "e", "i", "v", "e">>
W_quiet == <<"-", "-", "q", "u", "i", "e", "t">>
W_p == <<"-", "p">>
W_ssh == <<"s", "s", "h">>
W_dashdash == <<"-", "-">>

\* the decimal digits of a natural number (the %d of fmt.Sprintf)
RECURSIVE Itoa(_)
Itoa(n) ==
  LET d == <<"0", "1", "2", "3", "4", "5", "6", "7", "8", "9">>
  IN IF n < 10 THEN <<d[n + 1]>> ELSE Itoa(n \div 10) \o <<d[(n % 10) + 1]>>

\* the source node main builds
source ==
  [address |-> <<"l", "o", "c", "a", "l", "h", "o", "s", "t">>, sshPort |-> 0, mountPoint |-> <<"/", "m", "n", "t">>,
   snapshotPath |-> <<"s", "n", "a", "p", "s", "h", "o", "t">>]

\* the destination node main builds from -dst (parseNode) and -dst-snapshot-path
destination ==
  [address |-> <<"h", "o", "s", "t">>, sshPort |-> 22, mountPoint |-> <<"/", "m", "n", "t">>,
   snapshotPath |-> <<>>]

\* sshCmd(n, remoteCmd)
sshCmd(n, remoteCmd) ==
  <<W_ssh, W_p \o Itoa(n.sshPort), n.address, W_dashdash>> \o remoteCmd

\* a node that wraps its commands unless its address is "localhost"
NodeCmdByAddress(n, cmd) ==
  IF n.address # <<"l", "o", "c", "a", "l", "h", "o", "s", "t">> THEN sshCmd(n, cmd) ELSE cmd

\* a command as the node runs it: wrapped by sshCmd unless sshPort is 0
NodeCmd(n, cmd) == IF n.sshPort # 0 THEN sshCmd(n, cmd) ELSE cmd

(***************************************************************************)
(* Listing the snapshots of a node.                                        *)
(***************************************************************************)
\* regexp ^\d\d\d\d-\d\d-\d\d_\d\d-\d\d$ : "d" stands for a digit
snapshotRegex ==
  <<"d", "d", "d", "d", "-", "d", "d", "-", "d", "d", "_", "d", "d", "-", "d", "d">>

\* regexp .* : matches every name
matchAllRegex == <<".", "*">>

\* r.MatchString(name) for the pattern .* and for an anchored pattern r of
\* digits and literal characters
MatchString(r, name) ==
  IF r = matchAllRegex THEN TRUE
  ELSE /\ Len(name) = Len(r)
       /\ \A i \in 1..Len(r) :
            IF r[i] = "d" THEN name[i] \in Digits ELSE name[i] = r[i]

\* the loop of parseSubVolumes over the lines: the 9th token of every non-empty
\* line; the first line without exactly 9 tokens ends it with an error and no names
RECURSIVE parseLines(_, _)
parseLines(lines, names) ==
  IF lines = <<>> THEN [names |-> names, err |-> NoError]
  ELSE LET line == Head(lines)
           tokens == Split(line, " ")
       IN IF line = <<>> THEN parseLines(Tail(lines), names)
          ELSE IF Len(tokens) # 9
          THEN [names |-> <<>>,
                err |-> NewError("parseSubVolumes: unexpected btrfs output: %s", line)]
          ELSE parseLines(Tail(lines), Append(names, TrimRight(tokens[9], {NL})))

\* a parse that reads the first line of the text only
parseSubVolumesFirstLine(out) == parseLines(<<Head(Split(out, NL))>>, <<>>)

\* a parse that passes over the lines without exactly 9 tokens
parseSubVolumesLenient(out) ==
  parseLines(SelectSeq(Split(out, NL), LAMBDA l : Len(Split(l, " ")) = 9), <<>>)

\* parseSubVolumes(out)
parseSubVolumes(out) == parseLines(Split(out, NL), <<>>)

\* the loop of filterSnapshots: the file names of the volumes whose cleaned
\* directory is snapshotDir (already cleaned) and whose name matches r
RECURSIVE filterLoop(_, _, _)
filterLoop(subVolumes, snapshotDir, r) ==
  IF subVolumes = <<>> THEN <<>>
  ELSE LET s == PathSplit(Head(subVolumes))
           rest == filterLoop(Tail(subVolumes), snapshotDir, r)
       IN IF PathClean(s.dir) # snapshotDir THEN rest
          ELSE IF ~MatchString(r, s.file) THEN rest
          ELSE <<s.file>> \o rest

\* a filter that compares with snapshotDir as it was given
filterSnapshotsUncleaned(subVolumes, snapshotDir, r) ==
  filterLoop(subVolumes, snapshotDir, r)

\* filterSnapshots(subVolumes, snapshotDir, r)
filterSnapshots(subVolumes, snapshotDir, r) ==
  filterLoop(subVolumes, PathClean(snapshotDir), r)

\* x put into the ascending sequence s before the first element greater than it
RECURSIVE InsertSorted(_, _)
InsertSorted(x, s) ==
  IF s = <<>> THEN <<x>>
  ELSE IF StrLess(x, Head(s)) THEN <<x>> \o s
  ELSE <<Head(s)>> \o InsertSorted(x, Tail(s))

\* sort.Strings(s): s in ascending byte order, every element kept
RECURSIVE SortStrings(_)
SortStrings(s) ==
  IF s = <<>> THEN <<>> ELSE InsertSorted(Head(s), SortStrings(Tail(s)))

\* the command of n.getSnapshots()
ListCmd(n) == NodeCmd(n, <<W_btrfs, W_subvolume, W_list, n.mountPoint>>)

\* n.getSnapshots() when the executor answers the listing command with resp
getSnapshots(n, resp) ==
  IF resp.err # NoError THEN [snapshots |-> <<>>, err |-> resp.err]
  ELSE LET parsed == parseSubVolumes(resp.out)
       IN IF parsed.err # NoError THEN [snapshots |-> <<>>, err |-> parsed.err]
          ELSE [snapshots |->
                  SortStrings(filterSnapshots(parsed.names, n.snapshotPath, snapshotRegex)),
                err |-> NoError]

(***************************************************************************)
(* The listings the storage tool may return.                               *)
(***************************************************************************)
\* three snapshot names of the naming convention, in ascending order
Name1 == <<"2", "0", "1", "9", "-", "0", "1", "-", "1", "1", "_", "0", "3", "-", "0", "0">>
Name2 == <<"2", "0", "1", "9", "-", "0", "1", "-", "1", "2", "_", "0", "3", "-", "0", "0">>
Name3 == <<"2", "0", "1", "9", "-", "0", "1", "-", "1", "3", "_", "0", "3", "-", "0", "0">>
Names == {Name1, Name2, Name3}

\* the paths the tool lists: the names under snapshot/ and directly under the
\* mount point
ListedPaths == {<<"s", "n", "a", "p", "s", "h", "o", "t", "/">> \o n : n \in Names} \cup Names

\* a record of the listing: "ID 6 gen 2 top level 5 path <path>"
ListingLine(p) == <<"I", "D", " ", "6", " ", "g", "e", "n", " ", "2", " ", "t", "o", "p", " ", "l", "e", "v", "e", "l", " ", "5", " ", "p", "a", "t", "h", " ">> \o p

\* a line that is no record
MalformedLine == <<"f", "o", "o">>

ListingLines == {ListingLine(p) : p \in ListedPaths} \cup {MalformedLine}

\* the sequences over S of length at most n
SeqsUpTo(S, n) == UNION {[1..k -> S] : k \in 0..n}

\* the text of a listing: every line followed by a line separator
RECURSIVE ListingText(_)
ListingText(lines) ==
  IF lines = <<>> THEN <<>> ELSE Head(lines) \o <<NL>> \o ListingText(Tail(lines))

ListingTexts == {ListingText(ls) : ls \in SeqsUpTo(ListingLines, MaxLines)}

\* what the executor may answer to a listing command: a text, or an error
ListResponses ==
  {[out |-> t, transmitted |-> 0, err |-> NoError] : t \in ListingTexts}
    \cup {[out |-> <<>>, transmitted |-> 0, err |-> e] : e \in ExecErrors}


\* the answer of a node to a listing: what getSnapshots returns and the error
\* of the command execution itself
ListOutcome(n, resp) == [result |-> getSnapshots(n, resp), execErr |-> resp.err]

SourceOutcomes == {ListOutcome(source, resp) : resp \in ListResponses}

DestinationOutcomes == {ListOutcome(destination, resp) : resp \in ListResponses}

(***************************************************************************)
(* Transfers and the rollback delete.                                      *)
(***************************************************************************)
\* the largest byte count the executor reports for one pipeline
MaxTransmitted == 1

\* the two stages of sendSnapshot(source, destination, snapshot, previousSnapshot)
SendCmds(src, dst, snapshot, previousSnapshot) ==
  LET p == PathJoin(<<src.mountPoint, src.snapshotPath, previousSnapshot>>)
      s == PathJoin(<<src.mountPoint, src.snapshotPath, snapshot>>)
  IN <<NodeCmd(src, <<W_btrfs, W_send, W_quiet, W_p, p, s>>),
       NodeCmd(dst, <<W_btrfs, W_receive, dst.mountPoint>>)>>

\* a delete command that names the first snapshot only
DeleteCmdFirstOnly(n, snapshots) ==
  NodeCmd(n, <<W_btrfs, W_subvolume, W_delete, snapshots[1]>>)

\* the command of n.deleteSnapshots(snapshots), for a non-empty list
DeleteCmd(n, snapshots) == NodeCmd(n, <<W_btrfs, W_subvolume, W_delete>> \o snapshots)

\* what the executor may answer to the send/receive pipeline
SendResponses ==
  {[out |-> <<>>, transmitted |-> t, err |-> e] :
     t \in 0..MaxTransmitted, e \in {NoError} \cup ExecErrors}

\* what the executor may answer to the delete command (one stage: no bytes metered)
DeleteResponses ==
  {[out |-> <<>>, transmitted |-> 0, err |-> e] : e \in {NoError} \cup ExecErrors}

\* a call of an executor: whose executor, the stages, and the answer once it is in
RunningCall(executor, cmds) ==
  [executor |-> executor, cmds |-> cmds, status |-> "running",
   transmitted |-> 0, err |-> NoError]

FinishedCall(call, resp) ==
  [call EXCEPT !.status = "done", !.transmitted = resp.transmitted, !.err = resp.err]

\* a search that takes the first source snapshot for the first parent
FirstParentAny(snapshot, mostRecent) == snapshot

\* an iteration of transmitSnapshots with previousSnapshot == "": the new
\* previousSnapshot is mostRecentRemote when the snapshot is mostRecentRemote, and
\* stays "" otherwise
FirstParent(snapshot, mostRecent) == IF snapshot = mostRecent THEN mostRecent ELSE <<>>

\* a loop that never moves previousSnapshot on
NextParentStuck(snapshot, previous) == previous

\* the parent transmitSnapshots keeps for the next transfer after sending snapshot
NextParent(snapshot, previous) == snapshot

\* the error of sendSnapshot when the executor's pipeline ended with err
SendError(err) == Errorf("sendSnapshot: %v", err)

\* a rollback whose own error takes the place of the transfer's (err shadowed
\* by the inner err := of the delete)
TransmitErrorMasked(sendErr, deleteErr) ==
  Errorf("transmitSnapshots: %v", IF deleteErr # NoError THEN deleteErr ELSE sendErr)

\* the error transmitSnapshots returns after a failed transfer: made from the
\* error of sendSnapshot, whatever deleteSnapshots returned
TransmitError(sendErr, deleteErr) == Errorf("transmitSnapshots: %v", sendErr)

\* a rollback that deletes the parent instead of the failed snapshot
RollbackTargetsParent(snapshot, previous) == <<previous>>

\* the snapshots transmitSnapshots asks the destination to delete after the
\* transfer of snapshot (with parent previous) failed
RollbackTargets(snapshot, previous) == <<snapshot>>

\* whether sendSnapshot returns before it calls the executor
SkipsExecution(dry) == dry

(***************************************************************************)
(* The state.                                                              *)
(***************************************************************************)
VARIABLES
  pc,                    \* where main is
  dryRun,                \* the flag -n
  sourceSnapshots,       \* main: result of source.getSnapshots()
  destinationSnapshots,  \* main: result of destination.getSnapshots()
  mostRecentRemote,      \* transmitSnapshots: the newest destination snapshot
  previousSnapshot,      \* transmitSnapshots: the parent of the next transfer, "" at first
  idx,                   \* transmitSnapshots: the position of the loop in localSnapshots
  sendErr,               \* transmitSnapshots: the error sendSnapshot returned
  sent,                  \* the calls of sendSnapshot so far: (snapshot, parent)
  deleteRequests,        \* the calls of destination.deleteSnapshots so far: the lists
  calls,                 \* the calls of the executors so far
  returned,              \* whether transmitSnapshots has returned
  ret,                   \* the error transmitSnapshots returned
  exit,                  \* how main ended: "running", "ok", "fatal" or "panic"
  fatalErr,              \* the error main gave to log.Fatal
  dstFS,                 \* the snapshot names present at the destination
  listNode,              \* getSnapshots alone: the node
  listResp,              \* getSnapshots alone: the executor's answer
  listResult,            \* getSnapshots alone: what it returned
  listDone,              \* getSnapshots alone: whether it has returned
  unitIn,                \* a function called alone: its arguments
  unitOut,               \* a function called alone: what it returned
  unitDone,              \* a function called alone: whether it has returned
  execCmds,              \* exec: the argument cmds
  execPc,                \* exec: "idle", "build", "start", "wait", "return" or "done"
  execI,                 \* exec: the stage the start loop or the wait loop is at
  started,               \* exec: per stage, whether Start has succeeded
  errs,                  \* exec: the messages of the errors collected so far
  meter,                 \* exec: per pipe, the bytes its meteredPipe has counted
  out,                   \* exec: the buffer the last stage writes to
  execLog,               \* exec: the calls of Start and Wait so far, in order
  execRet,               \* exec: what it returned
  proc,                  \* exec: per stage, its process: "none", "running", "ok" or "failed"
  todo,                  \* exec: per stage, the bytes it has still to write to its output
  pipeBuf,               \* exec: per pipe, the bytes written to it and not yet read
  copier,                \* exec: per pipe, the copy into the next stage's input: not begun, reading, writing, done
  drained,               \* exec: per pipe, the bytes read from it so far
  lastRead               \* exec: the last meteredPipe.Read: what the pipe gave, what Read gave

mainVars ==
  <<pc, dryRun, sourceSnapshots, destinationSnapshots, mostRecentRemote,
    previousSnapshot, idx, sendErr, sent, deleteRequests, calls, returned, ret,
    exit, fatalErr, dstFS>>

listVars == <<listNode, listResp, listResult, listDone>>

unitVars == <<unitIn, unitOut, unitDone>>

execVars ==
  <<execCmds, execPc, execI, started, errs, meter, out, execLog, execRet,
    proc, todo, pipeBuf, copier, drained, lastRead>>

\* everything outside main
otherVars == <<listVars, unitVars, execVars>>

vars == <<mainVars, listVars, unitVars, execVars>>

\* the set of the elements of a sequence
Range(s) == {s[i] : i \in 1..Len(s)}

\* the state of main before its first call
MainIdle ==
  /\ sourceSnapshots = <<>>
  /\ destinationSnapshots = <<>>
  /\ mostRecentRemote = <<>>
  /\ previousSnapshot = <<>>
  /\ idx = 0
  /\ sendErr = NoError
  /\ sent = <<>>
  /\ deleteRequests = <<>>
  /\ calls = <<>>
  /\ returned = FALSE
  /\ ret = NoError
  /\ exit = "running"
  /\ fatalErr = NoError
  /\ dstFS = {}

ListIdle ==
  /\ listNode = source
  /\ listResp = [out |-> <<>>, transmitted |-> 0, err |-> NoError]
  /\ listResult = [snapshots |-> <<>>, err |-> NoError]
  /\ listDone = FALSE

\* no function is called alone
UnitIdle ==
  /\ unitIn = <<>>
  /\ unitOut = <<>>
  /\ unitDone = FALSE

\* exec is not running
ExecIdle ==
  /\ execCmds = <<>>
  /\ execPc = "idle"
  /\ execI = 0
  /\ started = <<>>
  /\ errs = <<>>
  /\ meter = <<>>
  /\ out = <<>>
  /\ execLog = <<>>
  /\ execRet = [out |-> <<>>, transmitted |-> 0, err |-> <<>>]
  /\ proc = <<>>
  /\ todo = <<>>
  /\ pipeBuf = <<>>
  /\ copier = <<>>
  /\ drained = <<>>
  /\ lastRead = [pipe |-> 0,
                 under |-> [data |-> <<>>, n |-> 0, err |-> <<>>],
                 got |-> [data |-> <<>>, n |-> 0, err |-> <<>>]]

\* main starts with the flag -n set or not
Init ==
  /\ pc = "getSource"
  /\ dryRun \in BOOLEAN
  /\ MainIdle
  /\ ListIdle
  /\ UnitIdle
  /\ ExecIdle

(***************************************************************************)
(* main.                                                                   *)
(***************************************************************************)
\* main: sourceSnapshots, err := source.getSnapshots(); log.Fatalf on an error
GetSourceSnapshots ==
  /\ pc = "getSource"
  /\ \E o \in SourceOutcomes :
       /\ calls' = Append(calls, [RunningCall("source", <<ListCmd(source)>>)
                                    EXCEPT !.status = "done", !.err = o.execErr])
       /\ IF o.result.err # NoError
          THEN /\ pc' = "exit"
               /\ exit' = "fatal"
               /\ fatalErr' = Errorf("failed to get local snapshots: %v", o.result.err)
               /\ UNCHANGED sourceSnapshots
          ELSE /\ pc' = "getDestination"
               /\ sourceSnapshots' = o.result.snapshots
               /\ UNCHANGED <<exit, fatalErr>>
  /\ UNCHANGED <<dryRun, destinationSnapshots, mostRecentRemote, previousSnapshot,
                 idx, sendErr, sent, deleteRequests, returned, ret, dstFS, otherVars>>

\* main: destinationSnapshots, err := destination.getSnapshots(); log.Fatalf on
\* an error.  The names listed are the snapshots present at the destination.
GetDestinationSnapshots ==
  /\ pc = "getDestination"
  /\ \E o \in DestinationOutcomes :
       /\ calls' = Append(calls, [RunningCall("destination", <<ListCmd(destination)>>)
                                    EXCEPT !.status = "done", !.err = o.execErr])
       /\ IF o.result.err # NoError
          THEN /\ pc' = "exit"
               /\ exit' = "fatal"
               /\ fatalErr' = Errorf("failed to get remote snapshots: %v", o.result.err)
               /\ UNCHANGED <<destinationSnapshots, dstFS>>
          ELSE /\ pc' = "transmit"
               /\ destinationSnapshots' = o.result.snapshots
               /\ dstFS' = Range(o.result.snapshots)
               /\ UNCHANGED <<exit, fatalErr>>
  /\ UNCHANGED <<dryRun, sourceSnapshots, mostRecentRemote, previousSnapshot,
                 idx, sendErr, sent, deleteRequests, returned, ret, otherVars>>

(***************************************************************************)
(* transmitSnapshots(&source, &destination, sourceSnapshots,               *)
(*                   destinationSnapshots, dryRun)                         *)
(***************************************************************************)
\* mostRecentRemote := remoteSnapshots[len(remoteSnapshots)-1]: an index out of
\* range, and so a run-time panic, when the list is empty
TransmitStart ==
  /\ pc = "transmit"
  /\ IF destinationSnapshots = <<>>
     THEN /\ pc' = "exit"
          /\ exit' = "panic"
          /\ UNCHANGED <<mostRecentRemote, idx>>
     ELSE /\ pc' = "loop"
          /\ mostRecentRemote' = destinationSnapshots[Len(destinationSnapshots)]
          /\ idx' = 1
          /\ UNCHANGED exit
  /\ previousSnapshot' = <<>>
  /\ UNCHANGED <<dryRun, sourceSnapshots, destinationSnapshots, sendErr, sent,
                 deleteRequests, calls, returned, ret, fatalErr, dstFS, otherVars>>

\* the loop is over: return nil, and main ends
LoopExit ==
  /\ pc = "loop"
  /\ idx > Len(sourceSnapshots)
  /\ pc' = "exit"
  /\ returned' = TRUE
  /\ ret' = NoError
  /\ exit' = "ok"
  /\ UNCHANGED <<dryRun, sourceSnapshots, destinationSnapshots, mostRecentRemote,
                 previousSnapshot, idx, sendErr, sent, deleteRequests, calls,
                 fatalErr, dstFS, otherVars>>

\* an iteration with previousSnapshot == "": the snapshot becomes the first
\* parent when it is mostRecentRemote, and is passed over otherwise
LoopSearch ==
  /\ pc = "loop"
  /\ idx <= Len(sourceSnapshots)
  /\ previousSnapshot = <<>>
  /\ previousSnapshot' = FirstParent(sourceSnapshots[idx], mostRecentRemote)
  /\ idx' = idx + 1
  /\ UNCHANGED <<pc, dryRun, sourceSnapshots, destinationSnapshots, mostRecentRemote,
                 sendErr, sent, deleteRequests, calls, returned, ret, exit,
                 fatalErr, dstFS, otherVars>>

\* an iteration with previousSnapshot != "" in a dry run: sendSnapshot returns
\* nil before it calls the executor
SendDryRun ==
  /\ pc = "loop"
  /\ idx <= Len(sourceSnapshots)
  /\ previousSnapshot # <<>>
  /\ SkipsExecution(dryRun)
  /\ sent' = Append(sent, [snapshot |-> sourceSnapshots[idx], parent |-> previousSnapshot])
  /\ previousSnapshot' = NextParent(sourceSnapshots[idx], previousSnapshot)
  /\ idx' = idx + 1
  /\ UNCHANGED <<pc, dryRun, sourceSnapshots, destinationSnapshots, mostRecentRemote,
                 sendErr, deleteRequests, calls, returned, ret, exit, fatalErr,
                 dstFS, otherVars>>

\* an iteration with previousSnapshot != "": sendSnapshot hands the pipeline to
\* the source's executor and waits for it
SendStart ==
  /\ pc = "loop"
  /\ idx <= Len(sourceSnapshots)
  /\ previousSnapshot # <<>>
  /\ ~SkipsExecution(dryRun)
  /\ sent' = Append(sent, [snapshot |-> sourceSnapshots[idx], parent |-> previousSnapshot])
  /\ calls' = Append(calls,
       RunningCall("source",
                   SendCmds(source, destination, sourceSnapshots[idx], previousSnapshot)))
  /\ pc' = "sending"
  /\ UNCHANGED <<dryRun, sourceSnapshots, destinationSnapshots, mostRecentRemote,
                 previousSnapshot, idx, sendErr, deleteRequests, returned, ret,
                 exit, fatalErr, dstFS, otherVars>>

\* the pipeline ended without an error: the snapshot is at the destination and
\* is the parent of the next transfer
SendSucceeds ==
  /\ pc = "sending"
  /\ \E resp \in SendResponses :
       /\ resp.err = NoError
       /\ calls' = [calls EXCEPT ![Len(calls)] = FinishedCall(@, resp)]
  /\ dstFS' = dstFS \cup {sourceSnapshots[idx]}
  /\ previousSnapshot' = NextParent(sourceSnapshots[idx], previousSnapshot)
  /\ idx' = idx + 1
  /\ pc' = "loop"
  /\ UNCHANGED <<dryRun, sourceSnapshots, destinationSnapshots, mostRecentRemote,
                 sendErr, sent, deleteRequests, returned, ret, exit, fatalErr,
                 otherVars>>

\* the pipeline ended with an error, leaving a partial snapshot at the
\* destination or none: transmitSnapshots calls destination.deleteSnapshots,
\* which runs the delete command unless its list is empty
SendFails ==
  /\ pc = "sending"
  /\ \E resp \in SendResponses :
       /\ resp.err # NoError
       /\ sendErr' = SendError(resp.err)
       /\ LET targets == RollbackTargets(sourceSnapshots[idx], previousSnapshot)
              finished == [calls EXCEPT ![Len(calls)] = FinishedCall(@, resp)]
          IN /\ deleteRequests' = Append(deleteRequests, targets)
             /\ IF Len(targets) = 0
                THEN /\ calls' = finished
                     /\ pc' = "exit"
                     /\ returned' = TRUE
                     /\ ret' = TransmitError(sendErr', NoError)
                     /\ exit' = "fatal"
                     /\ fatalErr' = ret'
                ELSE /\ calls' = Append(finished,
                          RunningCall("destination", <<DeleteCmd(destination, targets)>>))
                     /\ pc' = "deleting"
                     /\ UNCHANGED <<returned, ret, exit, fatalErr>>
  /\ \E partial \in BOOLEAN :
       dstFS' = IF partial THEN dstFS \cup {sourceSnapshots[idx]} ELSE dstFS
  /\ UNCHANGED <<dryRun, sourceSnapshots, destinationSnapshots, mostRecentRemote,
                 previousSnapshot, idx, sent, otherVars>>

\* the delete command ended: its error is logged only, transmitSnapshots returns
\* the error made from sendSnapshot's, and main ends with log.Fatal(err)
DeleteReturns ==
  /\ pc = "deleting"
  /\ \E resp \in DeleteResponses :
       /\ calls' = [calls EXCEPT ![Len(calls)] = FinishedCall(@, resp)]
       /\ dstFS' = IF resp.err = NoError
                   THEN dstFS \ Range(deleteRequests[Len(deleteRequests)])
                   ELSE dstFS
       /\ ret' = TransmitError(sendErr, resp.err)
  /\ returned' = TRUE
  /\ exit' = "fatal"
  /\ fatalErr' = ret'
  /\ pc' = "exit"
  /\ UNCHANGED <<dryRun, sourceSnapshots, destinationSnapshots, mostRecentRemote,
                 previousSnapshot, idx, sendErr, sent, deleteRequests, otherVars>>

Next ==
  \/ GetSourceSnapshots
  \/ GetDestinationSnapshots
  \/ TransmitStart
  \/ LoopExit
  \/ LoopSearch
  \/ SendDryRun
  \/ SendStart
  \/ SendSucceeds
  \/ SendFails
  \/ DeleteReturns

Spec == Init /\ [][Next]_vars


(***************************************************************************)
(* node.getSnapshots on its own: one node, one answer of the executor.    *)
(***************************************************************************)
InitList ==
  /\ pc = "list"
  /\ dryRun = FALSE
  /\ MainIdle
  /\ listNode \in {source, destination}
  /\ listResp \in ListResponses
  /\ listResult = [snapshots |-> <<>>, err |-> NoError]
  /\ listDone = FALSE
  /\ UnitIdle
  /\ ExecIdle

\* snapshots, err := listNode.getSnapshots()
GetSnapshots ==
  /\ pc = "list"
  /\ ~listDone
  /\ listResult' = getSnapshots(listNode, listResp)
  /\ listDone' = TRUE
  /\ UNCHANGED <<mainVars, listNode, listResp, unitVars, execVars>>

NextList == GetSnapshots

SpecList == InitList /\ [][NextList]_vars

(***************************************************************************)
(* Notions the properties use.                                             *)
(***************************************************************************)
\* the first position of x in s, 0 when x does not occur
FirstIndex(s, x) ==
  IF x \in Range(s) THEN CHOOSE i \in 1..Len(s) : s[i] = x /\ \A j \in 1..(i - 1) : s[j] # x
  ELSE 0

\* every element is less than the next one
StrictlyAscending(s) == \A i \in 1..(Len(s) - 1) : StrLess(s[i], s[i + 1])

\* no element is greater than the next one
Ascending(s) == \A i \in 1..(Len(s) - 1) : ~StrLess(s[i + 1], s[i])

\* s is the beginning of t
IsPrefix(s, t) == Len(s) <= Len(t) /\ s = SubSeq(t, 1, Len(s))

\* transmitSnapshots has been called with a non-empty destination list
Transmitting == pc \in {"loop", "sending", "deleting"} \/ returned

\* the newest snapshot of the destination's listing
Anchor == destinationSnapshots[Len(destinationSnapshots)]

\* the transfers after the anchor: every source snapshot that follows the
\* anchor's place, each with the source snapshot before it as its parent
PlannedTransfers ==
  LET k == FirstIndex(sourceSnapshots, Anchor)
  IN IF k = 0 THEN <<>>
     ELSE [i \in 1..(Len(sourceSnapshots) - k) |->
             [snapshot |-> sourceSnapshots[k + i], parent |-> sourceSnapshots[k + i - 1]]]

\* the executor calls of transmitSnapshots: those after the two listings of main
TransmitCalls == SubSeq(calls, 3, Len(calls))

\* the executor call of the i-th transfer of a run that is no dry run
SendCall(i) == calls[2 + i]

\* the i-th transfer has ended with an error
SendFailed(i) ==
  /\ ~dryRun
  /\ i \in 1..Len(sent)
  /\ SendCall(i).status = "done"
  /\ SendCall(i).err # NoError

\* the i-th transfer has ended without an error
SendSucceeded(i) ==
  /\ i \in 1..Len(sent)
  /\ \/ dryRun
     \/ SendCall(i).status = "done" /\ SendCall(i).err = NoError

\* a call that runs the send/receive pipeline
IsPipeline(call) == Len(call.cmds) = 2

\* a call that runs the delete command for exactly the snapshot name
IsDeleteOf(call, name) ==
  /\ call.executor = "destination"
  /\ Len(call.cmds) = 1
  /\ LET cmd == call.cmds[1]
     IN /\ Len(cmd) >= 4
        /\ SubSeq(cmd, Len(cmd) - 3, Len(cmd)) = <<W_btrfs, W_subvolume, W_delete, name>>

C2_NeverSendsExisting ==
  \A i \in 1..Len(sent) : sent[i].snapshot \notin Range(destinationSnapshots)

\* C3: in a run that is no dry run, while a transfer of (snapshot, parent) is
\* under way the parent is present at the destination, and it is the newest
\* snapshot of the destination's listing or the snapshot of an earlier transfer
\* of the run that ended without an error.
C3_ParentAtDestination ==
  (pc = "sending") =>
    LET t == sent[Len(sent)]
    IN /\ t.parent \in dstFS
       /\ \/ t.parent = Anchor
          \/ \E j \in 1..(Len(sent) - 1) :
               sent[j].snapshot = t.parent /\ SendSucceeded(j)

\* a second transfer is under way whose parent is not the anchor but the
\* snapshot the first transfer brought
C3_Witness ==
  /\ pc = "sending"
  /\ Len(sent) = 2
  /\ sent[2].parent # Anchor
  /\ sent[2].parent = sent[1].snapshot

\* C4: a failed transfer is the last transfer of the run; transmitSnapshots then
\* asks the destination once to delete exactly the failed snapshot, by one
\* delete command for that name, and returns an error; no run holds more than
\* one delete request.
C4_RollbackOnce ==
  /\ Len(deleteRequests) <= 1
  /\ Len(deleteRequests) = 1 => SendFailed(Len(sent))
  /\ \A i \in 1..Len(sent) :
       SendFailed(i) =>
         /\ i = Len(sent)
         /\ pc \in {"deleting", "exit"}
         /\ deleteRequests = << <<sent[i].snapshot>> >>
         /\ Len(calls) = 2 + i + 1
         /\ IsDeleteOf(calls[Len(calls)], sent[i].snapshot)
         /\ pc = "exit" => (returned /\ ret # NoError /\ exit = "fatal")

\* the first transfer failed while a later source snapshot was still to send,
\* and the run has ended
C4_Witness ==
  /\ pc = "exit" /\ returned
  /\ Len(sent) = 1 /\ SendFailed(1)
  /\ idx < Len(sourceSnapshots)

\* C5: after a failed transfer the error transmitSnapshots returns is the
\* transfer's error under the layers of sendSnapshot and transmitSnapshots,
\* whether the rollback delete ended with an error or not.
C5_TransferErrorReturned ==
  \A i \in 1..Len(sent) :
    (SendFailed(i) /\ returned) =>
      ret = Errorf("transmitSnapshots: %v", Errorf("sendSnapshot: %v", SendCall(i).err))

\* a transfer failed and the rollback delete failed with another error
C5_Witness ==
  /\ returned
  /\ Len(sent) >= 1 /\ SendFailed(Len(sent))
  /\ calls[Len(calls)].err # NoError
  /\ calls[Len(calls)].err # SendCall(Len(sent)).err

\* C6: the transfers of a run (here: of a run that is no dry run, where every
\* transfer is a pipeline) are started in strictly ascending snapshot order,
\* each after the one before has ended without an error, and never two at a time.
C6_SequentialAscending ==
  ~dryRun =>
    /\ \A i \in 1..Len(sent) : \A j \in (i + 1)..Len(sent) :
         StrLess(sent[i].snapshot, sent[j].snapshot)
    /\ \A i \in 1..(Len(sent) - 1) : SendSucceeded(i)
    /\ Cardinality({i \in 1..Len(calls) :
                      IsPipeline(calls[i]) /\ calls[i].status = "running"}) <= 1

\* C7: in a dry run transmitSnapshots calls no executor (no pipeline, no
\* delete), no byte is transmitted, and it returns nil, whatever the lists are.
C7_DryRunSucceeds ==
  dryRun =>
    /\ TransmitCalls = <<>>
    /\ deleteRequests = <<>>
    /\ \A i \in 1..Len(calls) : calls[i].transmitted = 0
    /\ (pc = "exit" /\ Len(calls) = 2 /\ fatalErr = NoError) =>
         (returned /\ ret = NoError)

\* C8: when the newest destination snapshot does not occur in the source list,
\* transmitSnapshots issues no transfer and no delete, calls no executor, and
\* returns nil.
C8_NoAnchorNoTransfer ==
  (Transmitting /\ Anchor \notin Range(sourceSnapshots)) =>
    /\ sent = <<>>
    /\ deleteRequests = <<>>
    /\ TransmitCalls = <<>>
    /\ pc \in {"loop", "exit"}
    /\ pc = "exit" => (returned /\ ret = NoError /\ exit = "ok")

\* a run over source [Name1, Name2] and destination [Name3] has returned
C8_Witness ==
  /\ returned /\ ~dryRun
  /\ sourceSnapshots = <<Name1, Name2>>
  /\ destinationSnapshots = <<Name3>>

\* C9: with an empty destination list the run ends with an error that
\* transmitSnapshots reports to its caller, and no transfer is attempted.
C9_EmptyDestinationIsError ==
  (pc = "exit" /\ Len(calls) = 2 /\ calls[2].err = NoError
     /\ (fatalErr = NoError \/ returned)
     /\ destinationSnapshots = <<>>) =>
    /\ sent = <<>>
    /\ returned /\ ret # NoError
    /\ exit = "fatal"

\* C10: every list getSnapshots returns without an error is sorted ascending
\* and holds no identifier twice.
C10_SortedNoDuplicates ==
  (listDone /\ listResult.err = NoError) =>
    /\ Ascending(listResult.snapshots)
    /\ \A i \in 1..Len(listResult.snapshots) : \A j \in 1..Len(listResult.snapshots) :
         listResult.snapshots[i] = listResult.snapshots[j] => i = j

(***************************************************************************)
(* executorImpl.exec on its own: the pipeline of the stages cmds.  The    *)
(* operating system decides whether a pipe can be made, whether a stage   *)
(* starts and how it exits.                                                *)
(***************************************************************************)
\* the most stages of a pipeline
MaxStages == 2

W_echo == <<"e", "c", "h", "o">>
W_foo == <<"f", "o", "o">>
W_cat == <<"c", "a", "t">>

\* the commands of the stages
ExecCommands == {<<W_echo, W_foo>>, <<W_cat>>}

\* the pipelines exec is called with
ExecPipelines == SeqsUpTo(ExecCommands, MaxStages)

\* what the last stage may have written to its standard output
ExecOutputs == {<<>>, W_foo \o <<NL>>}

\* the message of the error of c.Start() when the executable of cmd is not found
StartErrorText(cmd) ==
  <<"e", "x", "e", "c", ":", " ", "\"">> \o cmd[1]
    \o <<"\"", ":", " ", "n", "o", "t", " ", "f", "o", "u", "n", "d">>

\* the message of the error of c.Wait() when the stage exits with status 1
WaitErrorText == <<"e", "x", "i", "t", " ", "s", "t", "a", "t", "u", "s", " ", "1">>

\* the message of the error of c.Wait() on a stage whose Start failed
NotStartedText ==
  <<"e", "x", "e", "c", ":", " ", "n", "o", "t", " ", "s", "t", "a", "r", "t", "e", "d">>

\* the message of the error exec returns when StdoutPipe fails
PipeErrorText ==
  <<"e", "x", "e", "c", "P", "i", "p", "e", ":", " ", "S", "t", "d", "o", "u", "t",
    "P", "i", "p", "e", ":", " ", "p", "i", "p", "e", " ", "f", "a", "i", "l", "e", "d">>

\* fmt.Errorf("%+v", errs): the messages between brackets, separated by spaces
FormatErrs(es) == <<"[">> \o JoinStr(es, <<" ">>) \o <<"]">>

\* errs after a call that returned err: if err != nil { errs = append(errs, err) }
CollectErr(es, err) == IF err # <<>> THEN Append(es, err) ELSE es

\* a start loop that stops at the first stage that fails to start
NextToStartShortCircuit(i, err, n) == IF err # <<>> THEN n + 1 ELSE i + 1

\* the stage the start loop goes to after stage i, whose Start returned err
NextToStart(i, err, n) == i + 1

\* a wait loop that begins with the first stage
FirstToWaitForward(n) == IF n = 0 THEN 0 ELSE 1

\* the stage the wait loop begins with
FirstToWait(n) == n

\* the stage the wait loop goes to after stage i
NextToWait(i) == i - 1

\* the largest element of a sequence of naturals, 0 when it is empty
MaxOf(m) == IF m = <<>> THEN 0 ELSE CHOOSE x \in Range(m) : \A y \in Range(m) : y <= x

InitExec ==
  /\ pc = "exec"
  /\ dryRun = FALSE
  /\ MainIdle
  /\ ListIdle
  /\ UnitIdle
  /\ execCmds \in ExecPipelines
  /\ execPc = "build"
  /\ execI = 0
  /\ started = <<>>
  /\ errs = <<>>
  /\ meter = <<>>
  /\ out = <<>>
  /\ execLog = <<>>
  /\ execRet = [out |-> <<>>, transmitted |-> 0, err |-> <<>>]
  /\ proc = <<>>
  /\ todo = <<>>
  /\ pipeBuf = <<>>
  /\ copier = <<>>
  /\ drained = <<>>
  /\ lastRead = [pipe |-> 0,
                 under |-> [data |-> <<>>, n |-> 0, err |-> <<>>],
                 got |-> [data |-> <<>>, n |-> 0, err |-> <<>>]]

\* the most bytes a first stage writes
MaxStream == 3

\* the bytes a pipe holds before a write to it blocks
PipeCap == 1

\* the error of a read at the end of the stream, and of a read from a pipe
\* that the failed Start of its writer has closed
EOFText == <<"E", "O", "F">>
ClosedText ==
  <<"f", "i", "l", "e", " ", "a", "l", "r", "e", "a", "d", "y", " ",
    "c", "l", "o", "s", "e", "d">>

\* m.r.Read(p) on the pipe from a stage to the next: what it may return now.
\* After a failed Start of the writer the pipe is closed; bytes in the pipe
\* are returned, some or all; an empty pipe whose writer has exited is at its
\* end; and an empty pipe whose writer runs returns nothing yet
UnderlyingReads(buf, writerStarted, writerRuns) ==
  IF ~writerStarted THEN {[data |-> <<>>, n |-> 0, err |-> ClosedText]}
  ELSE IF buf # <<>>
  THEN {[data |-> SubSeq(buf, 1, n), n |-> n, err |-> <<>>] : n \in 1..Len(buf)}
  ELSE IF ~writerRuns THEN {[data |-> <<>>, n |-> 0, err |-> EOFText]}
  ELSE {}

\* a Read that returns the bytes and counts none
meteredReadUncounted(m, under) ==
  [data |-> under.data, n |-> under.n, err |-> under.err, meter |-> m]

\* meteredPipe.Read with the meter at m, when m.r.Read returns under:
\* n, err := m.r.Read(p); m.meter += n; return n, err
meteredRead(m, under) ==
  [data |-> under.data, n |-> under.n, err |-> under.err, meter |-> m + under.n]

\* the loop that makes the commands and the pipes between them, all pipes made
ExecBuild ==
  /\ execPc = "build"
  /\ started' = [i \in 1..Len(execCmds) |-> FALSE]
  /\ meter' = [p \in 1..(Len(execCmds) - 1) |-> 0]
  /\ proc' = [i \in 1..Len(execCmds) |-> "none"]
  /\ todo' = [i \in 1..Len(execCmds) |-> <<>>]
  /\ pipeBuf' = [p \in 1..(Len(execCmds) - 1) |-> <<>>]
  /\ copier' = [p \in 1..(Len(execCmds) - 1) |-> [state |-> "none", held |-> <<>>, err |-> <<>>]]
  /\ drained' = [p \in 1..(Len(execCmds) - 1) |-> <<>>]
  /\ IF Len(execCmds) = 0
     THEN execPc' = "return" /\ UNCHANGED execI
     ELSE execPc' = "start" /\ execI' = 1
  /\ UNCHANGED <<mainVars, listVars, unitVars, execCmds, errs, out, execLog, execRet,
                 lastRead>>

\* the same loop when StdoutPipe returns an error: exec returns at once
ExecPipeFails ==
  /\ execPc = "build"
  /\ Len(execCmds) > 1
  /\ execRet' = [out |-> <<>>, transmitted |-> 0, err |-> PipeErrorText]
  /\ execPc' = "done"
  /\ UNCHANGED <<mainVars, listVars, unitVars, execCmds, execI, started, errs, meter,
                 out, execLog, proc, todo, pipeBuf, copier, drained, lastRead>>

\* one iteration of the start loop: c.Start() of stage execI.  A stage that
\* starts runs as a process, the first stage of a pipeline with a stream to
\* write (the bytes 1, ..., len), and the copy into the input of a later stage begins
ExecStart ==
  /\ execPc = "start"
  /\ \E err \in {<<>>, StartErrorText(execCmds[execI])} :
       LET next == NextToStart(execI, err, Len(execCmds))
       IN /\ started' = [started EXCEPT ![execI] = (err = <<>>)]
          /\ errs' = CollectErr(errs, err)
          /\ execLog' = Append(execLog, [op |-> "Start", stage |-> execI, err |-> err])
          /\ IF next > Len(execCmds)
             THEN execPc' = "wait" /\ execI' = FirstToWait(Len(execCmds))
             ELSE execPc' = "start" /\ execI' = next
          /\ IF err = <<>>
             THEN /\ proc' = [proc EXCEPT ![execI] = "running"]
                  /\ IF execI = 1 /\ Len(execCmds) > 1
                     THEN \E len \in 0..MaxStream :
                            todo' = [todo EXCEPT ![1] = [k \in 1..len |-> k]]
                     ELSE UNCHANGED todo
                  /\ IF execI > 1
                     THEN copier' = [copier EXCEPT ![execI - 1] =
                                       [state |-> "reading", held |-> <<>>, err |-> <<>>]]
                     ELSE UNCHANGED copier
             ELSE UNCHANGED <<proc, todo, copier>>
  /\ UNCHANGED <<mainVars, listVars, unitVars, execCmds, meter, out, execRet,
                 pipeBuf, drained, lastRead>>

\* the running stage i writes one byte to the pipe on its output, which has room
StageWrites(i) ==
  /\ execPc \in {"start", "wait"}
  /\ i \in 1..Len(pipeBuf)
  /\ proc[i] = "running"
  /\ todo[i] # <<>>
  /\ Len(pipeBuf[i]) < PipeCap
  /\ pipeBuf' = [pipeBuf EXCEPT ![i] = Append(@, Head(todo[i]))]
  /\ todo' = [todo EXCEPT ![i] = Tail(@)]
  /\ UNCHANGED <<mainVars, listVars, unitVars, execCmds, execPc, execI, started, errs,
                 meter, out, execLog, execRet, proc, copier, drained, lastRead>>

\* the running stage i exits with status 0: it has written all it had to
\* write, and its input, if it has one, is at its end
StageExits(i) ==
  /\ execPc \in {"start", "wait"}
  /\ i \in 1..Len(proc)
  /\ proc[i] = "running"
  /\ todo[i] = <<>>
  /\ i > 1 => copier[i - 1].state = "done"
  /\ proc' = [proc EXCEPT ![i] = "ok"]
  /\ UNCHANGED <<mainVars, listVars, unitVars, execCmds, execPc, execI, started, errs,
                 meter, out, execLog, execRet, todo, pipeBuf, copier, drained, lastRead>>

\* the running stage i ends at once with a failure, whatever it had still to
\* read or write
StageFails(i) ==
  /\ execPc \in {"start", "wait"}
  /\ i \in 1..Len(proc)
  /\ proc[i] = "running"
  /\ proc' = [proc EXCEPT ![i] = "failed"]
  /\ todo' = [todo EXCEPT ![i] = <<>>]
  /\ UNCHANGED <<mainVars, listVars, unitVars, execCmds, execPc, execI, started, errs,
                 meter, out, execLog, execRet, pipeBuf, copier, drained, lastRead>>

\* meteredPipe.Read on pipe p, called by the copy into the input of stage
\* p + 1: bytes read are held for the write that follows, an error ends the
\* copy (the end of the stream is no error of the copy)
ExecRead(p) ==
  /\ execPc \in {"start", "wait"}
  /\ p \in 1..Len(copier)
  /\ copier[p].state = "reading"
  /\ \E under \in UnderlyingReads(pipeBuf[p], started[p], proc[p] = "running") :
       LET got == meteredRead(meter[p], under)
       IN /\ meter' = [meter EXCEPT ![p] = got.meter]
          /\ pipeBuf' = [pipeBuf EXCEPT ![p] = SubSeq(@, under.n + 1, Len(@))]
          /\ drained' = [drained EXCEPT ![p] = @ \o under.data]
          /\ lastRead' = [pipe |-> p, under |-> under,
                          got |-> [data |-> got.data, n |-> got.n, err |-> got.err]]
          /\ copier' = [copier EXCEPT ![p] =
                          IF got.err = <<>> THEN [state |-> "writing", held |-> got.data, err |-> <<>>]
                          ELSE IF got.err = EOFText THEN [state |-> "done", held |-> <<>>, err |-> <<>>]
                          ELSE [state |-> "done", held |-> <<>>, err |-> got.err]]
  /\ UNCHANGED <<mainVars, listVars, unitVars, execCmds, execPc, execI, started, errs,
                 out, execLog, execRet, proc, todo>>

\* the write of the bytes held to the input of stage p + 1: a running stage
\* that has nothing left to write takes them (and, when it is not the last
\* stage, has them to write), and the write to a stage that has exited fails
\* and ends the copy
CopyWrite(p) ==
  /\ execPc \in {"start", "wait"}
  /\ p \in 1..Len(copier)
  /\ copier[p].state = "writing"
  /\ IF proc[p + 1] = "running"
     THEN /\ todo[p + 1] = <<>>
          /\ todo' = [todo EXCEPT ![p + 1] =
                        IF p + 1 < Len(execCmds) THEN copier[p].held ELSE <<>>]
          /\ copier' = [copier EXCEPT ![p] = [state |-> "reading", held |-> <<>>, err |-> <<>>]]
     ELSE /\ copier' = [copier EXCEPT ![p] = [state |-> "done", held |-> <<>>, err |-> <<>>]]
          /\ UNCHANGED todo
  /\ UNCHANGED <<mainVars, listVars, unitVars, execCmds, execPc, execI, started, errs,
                 meter, out, execLog, execRet, proc, pipeBuf, drained, lastRead>>

\* whether cs[i].Wait() can return: a stage that was not started fails at
\* once; otherwise Wait returns when the process has exited and the copy into
\* its input is over
WaitReturns(i) ==
  started[i] =>
    /\ proc[i] \in {"ok", "failed"}
    /\ i > 1 => copier[i - 1].state = "done"

\* the error cs[i].Wait() returns
WaitError(i) ==
  IF ~started[i] THEN NotStartedText
  ELSE IF proc[i] = "failed" THEN WaitErrorText
  ELSE IF i > 1 THEN copier[i - 1].err
  ELSE <<>>

\* one iteration of the wait loop: cs[execI].Wait() returns
ExecWait ==
  /\ execPc = "wait"
  /\ WaitReturns(execI)
  /\ LET err == WaitError(execI)
         next == NextToWait(execI)
     IN /\ errs' = CollectErr(errs, err)
        /\ execLog' = Append(execLog, [op |-> "Wait", stage |-> execI, err |-> err])
        /\ IF next < 1
           THEN execPc' = "return" /\ UNCHANGED execI
           ELSE execPc' = "wait" /\ execI' = next
  /\ IF execI = Len(execCmds) /\ started[execI]
     THEN out' \in ExecOutputs
     ELSE UNCHANGED out
  /\ UNCHANGED <<mainVars, listVars, unitVars, execCmds, started, meter, execRet,
                 proc, todo, pipeBuf, copier, drained, lastRead>>

\* the end of exec: the largest meter, and the errors or the output
ExecReturn ==
  /\ execPc = "return"
  /\ execRet' = IF Len(errs) > 0
                THEN [out |-> <<>>, transmitted |-> MaxOf(meter), err |-> FormatErrs(errs)]
                ELSE [out |-> out, transmitted |-> MaxOf(meter), err |-> <<>>]
  /\ execPc' = "done"
  /\ UNCHANGED <<mainVars, listVars, unitVars, execCmds, execI, started, errs, meter,
                 out, execLog, proc, todo, pipeBuf, copier, drained, lastRead>>

NextExec ==
  \/ ExecBuild
  \/ ExecPipeFails
  \/ ExecStart
  \/ \E i \in 1..MaxStages : StageWrites(i)
  \/ \E i \in 1..MaxStages : StageExits(i)
  \/ \E i \in 1..MaxStages : StageFails(i)
  \/ \E p \in 1..MaxStages : ExecRead(p)
  \/ \E p \in 1..MaxStages : CopyWrite(p)
  \/ ExecWait
  \/ ExecReturn

SpecExec == InitExec /\ [][NextExec]_vars

\* exec when the machine is fair to what can go on: exec itself runs on, the
\* copies run on, and a process that can write or exit does so; a process is
\* never bound to fail
SpecExecFair ==
  /\ InitExec
  /\ [][NextExec]_vars
  /\ WF_vars(ExecBuild)
  /\ WF_vars(ExecStart)
  /\ WF_vars(ExecWait)
  /\ WF_vars(ExecReturn)
  /\ \A i \in 1..MaxStages :
       /\ WF_vars(StageWrites(i))
       /\ WF_vars(StageExits(i))
       /\ WF_vars(ExecRead(i))
       /\ WF_vars(CopyWrite(i))

\* whether the string s contains the string sub
Contains(s, sub) ==
  \E i \in 1..(Len(s) - Len(sub) + 1) : SubSeq(s, i, i + Len(sub) - 1) = sub

\* the calls of op on stage i in the log of exec
LogOf(op, i) == {k \in 1..Len(execLog) : execLog[k].op = op /\ execLog[k].stage = i}

\* C11: exec collects the errors of its stages and does not stop at the first:
\* once the start loop is over every stage has been started, also the stages
\* after one that failed to start; once the wait loop is over every stage has
\* been waited for, also the stages before one whose wait failed; and the
\* error exec returns contains the message of every failed Start and Wait
C11_ErrorsCollected ==
  /\ execPc \in {"wait", "return", "done"} /\ execLog # <<>> =>
       \A i \in 1..Len(execCmds) : LogOf("Start", i) # {}
  /\ execPc \in {"return", "done"} /\ execLog # <<>> =>
       \A i \in 1..Len(execCmds) : LogOf("Wait", i) # {}
  /\ execPc = "done" /\ execLog # <<>> =>
       \A k \in 1..Len(execLog) :
         execLog[k].err # <<>> =>
           /\ execRet.err # <<>>
           /\ Contains(execRet.err, execLog[k].err)

\* exec has returned from a pipeline whose producer failed to start and whose
\* consumer, started all the same, exited with an error
C11_Witness ==
  /\ execPc = "done"
  /\ Len(execCmds) = 2
  /\ \E k \in LogOf("Start", 1) : execLog[k].err # <<>>
  /\ \E k \in LogOf("Start", 2) : execLog[k].err = <<>>
  /\ \E k \in LogOf("Wait", 2) : execLog[k].err = WaitErrorText
  /\ \E k \in LogOf("Wait", 1) : execLog[k].err # <<>>

\* C20: exec starts every stage before it waits for any, and waits for the
\* stages in reverse order: when Wait is called on a stage every stage has
\* been started and Wait has returned for every later stage, so the producer
\* is never awaited before the wait of its consumer has returned
C20_StartAllThenWaitReverse ==
  \A k \in 1..Len(execLog) :
    execLog[k].op = "Wait" =>
      /\ \A i \in 1..Len(execCmds) : \E j \in LogOf("Start", i) : j < k
      /\ \A i \in (execLog[k].stage + 1)..Len(execCmds) : \E j \in LogOf("Wait", i) : j < k
      /\ \A j \in 1..Len(execLog) : execLog[j].op = "Start" => j < k

\* exec has waited for the producer of a pipeline of two stages
C20_Witness ==
  /\ Len(execCmds) = 2
  /\ LogOf("Wait", 1) # {}
  /\ LogOf("Wait", 2) # {}

(***************************************************************************)
(* node.deleteSnapshots on its own: one node, one list, one answer of the *)
(* executor.                                                               *)
(***************************************************************************)
\* the most snapshots of a list given to deleteSnapshots
MaxDeleted == 2

\* n.deleteSnapshots(snapshots) when the executor answers resp: the pipelines
\* it gives to n.executor.exec, and the error it returns
deleteSnapshots(n, snapshots, resp) ==
  IF Len(snapshots) = 0
  THEN [calls |-> <<>>, err |-> NoError]
  ELSE [calls |-> << <<DeleteCmd(n, snapshots)>> >>, err |-> resp.err]

InitDelete ==
  /\ pc = "delete"
  /\ dryRun = FALSE
  /\ MainIdle
  /\ ListIdle
  /\ ExecIdle
  /\ unitIn \in [node : {source, destination},
                 snapshots : SeqsUpTo(Names, MaxDeleted),
                 resp : DeleteResponses]
  /\ unitOut = [calls |-> <<>>, err |-> NoError]
  /\ unitDone = FALSE

\* err := unitIn.node.deleteSnapshots(unitIn.snapshots)
DeleteSnapshots ==
  /\ pc = "delete"
  /\ ~unitDone
  /\ unitOut' = deleteSnapshots(unitIn.node, unitIn.snapshots, unitIn.resp)
  /\ unitDone' = TRUE
  /\ UNCHANGED <<mainVars, listVars, execVars, unitIn>>

NextDelete == DeleteSnapshots

SpecDelete == InitDelete /\ [][NextDelete]_vars

\* C12: deleteSnapshots with an empty list returns nil and calls no executor;
\* with a non-empty list it calls the executor once, with one stage that is
\* the command "btrfs subvolume delete" followed by all the given identifiers
\* in the given order, and returns the error of that call
C12_DeleteOnce ==
  (pc = "delete" /\ unitDone) =>
    IF unitIn.snapshots = <<>>
    THEN unitOut.calls = <<>> /\ unitOut.err = NoError
    ELSE /\ Len(unitOut.calls) = 1
         /\ Len(unitOut.calls[1]) = 1
         /\ LET cmd == unitOut.calls[1][1]
                k == Len(unitIn.snapshots)
            IN /\ Len(cmd) >= k + 3
               /\ SubSeq(cmd, Len(cmd) - k + 1, Len(cmd)) = unitIn.snapshots
               /\ SubSeq(cmd, Len(cmd) - k - 2, Len(cmd) - k) =
                    <<W_btrfs, W_subvolume, W_delete>>
         /\ unitOut.err = unitIn.resp.err

\* deleteSnapshots has returned the executor's error for a list of two
\* different snapshots
C12_Witness ==
  /\ pc = "delete"
  /\ unitDone
  /\ Len(unitIn.snapshots) = 2
  /\ unitIn.snapshots[1] # unitIn.snapshots[2]
  /\ unitIn.resp.err # NoError
  /\ unitOut.err # NoError

(***************************************************************************)
(* parseSubVolumes on its own: one listing text.                           *)
(***************************************************************************)
\* the most lines of a text given to parseSubVolumes
MaxParseLines == 3

\* the lines of the texts: no line, two records, a record with two spaces
\* after its first token, a record with two spaces before its last token and
\* no token "path", a line of one token, and a record whose path holds a space
ParseLines ==
  { <<>>,
    ListingLine(<<"f", "o", "o">>),
    ListingLine(<<"b", "a", "r">>),
    <<"I", "D", " ">> \o Tail(Tail(ListingLine(<<"f", "o", "o">>))),
    <<"I", "D", " ", "6", " ", "g", "e", "n", " ", "2", " ", "t", "o", "p", " ",
      "l", "e", "v", "e", "l", " ", "5", " ", " ", "f", "o", "o">>,
    MalformedLine,
    ListingLine(<<"f", "o", "o", " ", "b", "a", "r">>) }

\* the texts: the lines with a line separator between them
ParseTexts == {JoinStr(ls, <<NL>>) : ls \in SeqsUpTo(ParseLines, MaxParseLines)}

InitParse ==
  /\ pc = "parse"
  /\ dryRun = FALSE
  /\ MainIdle
  /\ ListIdle
  /\ ExecIdle
  /\ unitIn \in ParseTexts
  /\ unitOut = [names |-> <<>>, err |-> NoError]
  /\ unitDone = FALSE

\* names, err := parseSubVolumes(unitIn)
ParseSubVolumes ==
  /\ pc = "parse"
  /\ ~unitDone
  /\ unitOut' = parseSubVolumes(unitIn)
  /\ unitDone' = TRUE
  /\ UNCHANGED <<mainVars, listVars, execVars, unitIn>>

NextParse == ParseSubVolumes

SpecParse == InitParse /\ [][NextParse]_vars

\* the non-empty lines of a text, in order
NonEmptyLines(text) == NonEmptyOnly(Split(text, NL))

\* the pieces of a line between its space characters (empty pieces included)
Pieces(line) == Split(line, " ")

\* the whitespace-separated tokens of a line: its maximal runs of characters
\* other than spaces
WsTokens(line) == NonEmptyOnly(Split(line, " "))

\* C13 (amended): when every non-empty line of the text splits at its single
\* space characters into exactly 9 pieces, parseSubVolumes succeeds and
\* returns one path for every non-empty line, the line's 9th piece, in the
\* order of the lines; empty lines contribute nothing
C13_NinthPieceOfEveryLine ==
  (pc = "parse" /\ unitDone) =>
    LET ne == NonEmptyLines(unitIn)
    IN (\A i \in 1..Len(ne) : Len(Pieces(ne[i])) = 9) =>
         /\ unitOut.err = NoError
         /\ unitOut.names = [i \in 1..Len(ne) |-> Pieces(ne[i])[9]]

\* C13 as stated: when every non-empty line has exactly 9 whitespace-separated
\* tokens, parseSubVolumes succeeds and returns the 9th token of every
\* non-empty line, in order
C13_NinthTokenOfEveryLine ==
  (pc = "parse" /\ unitDone) =>
    LET ne == NonEmptyLines(unitIn)
    IN (\A i \in 1..Len(ne) : Len(WsTokens(ne[i])) = 9) =>
         /\ unitOut.err = NoError
         /\ unitOut.names = [i \in 1..Len(ne) |-> WsTokens(ne[i])[9]]

\* parseSubVolumes has returned the paths foo and bar of a text that begins
\* with an empty line and ends with one
C13_Witness ==
  /\ pc = "parse"
  /\ unitDone
  /\ Len(Split(unitIn, NL)) = 3
  /\ Head(Split(unitIn, NL)) = <<>>
  /\ Len(NonEmptyLines(unitIn)) = 2
  /\ unitOut.err = NoError
  /\ unitOut.names = <<<<"b", "a", "r">>, <<"f", "o", "o">>>>

\* the non-empty lines of a text that do not split into exactly 9 pieces
BadLines(text) ==
  SelectSeq(NonEmptyLines(text), LAMBDA l : Len(Pieces(l)) # 9)

\* C14 (amended): when some non-empty line of the text does not split at its
\* single space characters into exactly 9 pieces, parseSubVolumes returns an
\* error that carries the first such line, and no paths at all
C14_BadLineFailsAll ==
  (pc = "parse" /\ unitDone) =>
    (BadLines(unitIn) # <<>> =>
       /\ unitOut.err # NoError
       /\ unitOut.err[1].line = Head(BadLines(unitIn))
       /\ unitOut.names = <<>>)

\* C14 as stated, a field being a whitespace-separated token: when some
\* non-empty line does not have exactly 9 fields, parseSubVolumes returns an
\* error and no paths
C14_BadFieldCountFailsAll ==
  (pc = "parse" /\ unitDone) =>
    ((\E i \in 1..Len(NonEmptyLines(unitIn)) :
        Len(WsTokens(NonEmptyLines(unitIn)[i])) # 9) =>
       /\ unitOut.err # NoError
       /\ unitOut.names = <<>>)

\* parseSubVolumes has returned an error and no path for a text whose first
\* line is a record and whose second line is not
C14_Witness ==
  /\ pc = "parse"
  /\ unitDone
  /\ Len(NonEmptyLines(unitIn)) = 2
  /\ Len(Pieces(NonEmptyLines(unitIn)[1])) = 9
  /\ NonEmptyLines(unitIn)[2] = MalformedLine
  /\ unitOut.err # NoError
  /\ unitOut.err[1].line = MalformedLine
  /\ unitOut.names = <<>>

(***************************************************************************)
(* filterSnapshots on its own: one list of paths and one pattern, called  *)
(* with two snapshot directories.                                          *)
(***************************************************************************)
\* the most paths of a list given to filterSnapshots
MaxVolumes == 3

W_snapshot == <<"s", "n", "a", "p", "s", "h", "o", "t">>
W_foobar == <<"f", "o", "o", "b", "a", "r">>

\* the paths of the lists: a snapshot and another volume in snapshot/, both
\* directly under the mount point as well, and a snapshot one level deeper
FilterPaths ==
  { W_snapshot \o <<"/">> \o Name1,
    W_snapshot \o <<"/">> \o W_foobar,
    W_foobar,
    Name1,
    W_snapshot \o <<"/", "s", "u", "b", "/">> \o Name1 }

\* the snapshot directories
FilterDirs == {W_snapshot, W_snapshot \o <<"/">>, <<>>, <<".">>, <<"/">>}

\* the patterns
FilterRegexes == {snapshotRegex, matchAllRegex}

InitFilter ==
  /\ pc = "filter"
  /\ dryRun = FALSE
  /\ MainIdle
  /\ ListIdle
  /\ ExecIdle
  /\ unitIn \in [volumes : SeqsUpTo(FilterPaths, MaxVolumes),
                 snapshotDir : FilterDirs,
                 otherDir : FilterDirs,
                 r : FilterRegexes]
  /\ unitOut = [result |-> <<>>, other |-> <<>>]
  /\ unitDone = FALSE

\* result := filterSnapshots(volumes, snapshotDir, r), and the same call with
\* otherDir
FilterSnapshots ==
  /\ pc = "filter"
  /\ ~unitDone
  /\ unitOut' = [result |-> filterSnapshots(unitIn.volumes, unitIn.snapshotDir, unitIn.r),
                 other |-> filterSnapshots(unitIn.volumes, unitIn.otherDir, unitIn.r)]
  /\ unitDone' = TRUE
  /\ UNCHANGED <<mainVars, listVars, execVars, unitIn>>

NextFilter == FilterSnapshots

SpecFilter == InitFilter /\ [][NextFilter]_vars

\* the places of the separators of a path
Slashes(p) == {i \in 1..Len(p) : p[i] = "/"}

\* the directory part of a path: what precedes its last separator
DirPart(p) ==
  IF Slashes(p) = {} THEN <<>>
  ELSE SubSeq(p, 1, (CHOOSE i \in Slashes(p) : \A j \in Slashes(p) : j <= i) - 1)

\* the base name of a path: what follows its last separator
BaseName(p) ==
  IF Slashes(p) = {} THEN p
  ELSE SubSeq(p, (CHOOSE i \in Slashes(p) : \A j \in Slashes(p) : j <= i) + 1, Len(p))

\* the normalized snapshot directory: "." is the empty directory, the root is
\* itself, and a trailing separator is dropped
NormDir(d) ==
  IF d = <<".">> THEN <<>>
  ELSE IF Len(d) > 1 /\ d[Len(d)] = "/" THEN SubSeq(d, 1, Len(d) - 1)
  ELSE d

\* whether the whole of name matches the pattern r, for the names of FilterPaths
FullyMatches(r, name) == r = matchAllRegex \/ name \in Names

\* the paths of volumes that are directly in the directory d and whose base
\* name matches r, in order
Selected(volumes, d, r) ==
  SelectSeq(volumes, LAMBDA v : DirPart(v) = NormDir(d) /\ FullyMatches(r, BaseName(v)))

\* C15: filterSnapshots returns the base names of exactly the paths whose
\* directory part is the normalized snapshot directory and whose base name
\* fully matches the pattern, in input order and as often as they occur; with
\* the empty directory and the pattern .* a list of paths without separator
\* comes back unchanged; without a match the result is empty
C15_FilterExact ==
  (pc = "filter" /\ unitDone) =>
    LET sel == Selected(unitIn.volumes, unitIn.snapshotDir, unitIn.r)
    IN /\ unitOut.result = [i \in 1..Len(sel) |-> BaseName(sel[i])]
       /\ (/\ unitIn.snapshotDir = <<>>
           /\ unitIn.r = matchAllRegex
           /\ \A i \in 1..Len(unitIn.volumes) : Slashes(unitIn.volumes[i]) = {})
            => unitOut.result = unitIn.volumes
       /\ sel = <<>> => unitOut.result = <<>>

\* filterSnapshots has returned the same name twice, for the directory
\* "snapshot/", and left out the snapshot one level deeper that stood between
C15_Witness ==
  /\ pc = "filter"
  /\ unitDone
  /\ unitIn.snapshotDir = W_snapshot \o <<"/">>
  /\ unitIn.r = snapshotRegex
  /\ unitIn.volumes = << W_snapshot \o <<"/">> \o Name1,
                         W_snapshot \o <<"/", "s", "u", "b", "/">> \o Name1,
                         W_snapshot \o <<"/">> \o Name1 >>
  /\ unitOut.result = <<Name1, Name1>>

\* C16 (amended): for a non-empty snapshot directory d, filterSnapshots gives
\* the same result with d and with d followed by a separator; and it gives
\* the same result with the empty directory and with "."
C16_TrailingSeparator ==
  (pc = "filter" /\ unitDone) =>
    /\ (unitIn.snapshotDir # <<>> /\ unitIn.otherDir = unitIn.snapshotDir \o <<"/">>)
         => unitOut.result = unitOut.other
    /\ (unitIn.snapshotDir = <<>> /\ unitIn.otherDir = <<".">>)
         => unitOut.result = unitOut.other

\* C16 as stated: for every snapshot directory d, the empty one included,
\* filterSnapshots gives the same result with d and with d followed by a
\* separator; and the same result with the empty directory and with "."
C16_TrailingSeparatorAnyDir ==
  (pc = "filter" /\ unitDone) =>
    /\ unitIn.otherDir = unitIn.snapshotDir \o <<"/">> => unitOut.result = unitOut.other
    /\ (unitIn.snapshotDir = <<>> /\ unitIn.otherDir = <<".">>)
         => unitOut.result = unitOut.other

\* filterSnapshots has returned the same non-empty result for "snapshot" and
\* for "snapshot/"
C16_Witness ==
  /\ pc = "filter"
  /\ unitDone
  /\ unitIn.snapshotDir = W_snapshot
  /\ unitIn.otherDir = W_snapshot \o <<"/">>
  /\ unitOut.result # <<>>
  /\ unitOut.result = unitOut.other

(***************************************************************************)
(* The commands of a node: the node is the source main builds or the      *)
(* destination parseNode makes of the flag -dst, and one of the four      *)
(* commands is built for it.                                               *)
(***************************************************************************)
LowerLetters ==
  {"a", "b", "c", "d", "e", "f", "g", "h", "i", "j", "k", "l", "m",
   "n", "o", "p", "q", "r", "s", "t", "u", "v", "w", "x", "y", "z"}

UpperLetters ==
  {"A", "B", "C", "D", "E", "F", "G", "H", "I", "J", "K", "L", "M",
   "N", "O", "P", "Q", "R", "S", "T", "U", "V", "W", "X", "Y", "Z"}

\* the classes of the three groups of destinationRegexp
AddressChars == LowerLetters \cup Digits \cup {"-", "."}
MountChars == LowerLetters \cup UpperLetters \cup Digits \cup {"-", ".", "/"}

\* a string without its leading zeros
RECURSIVE StripZeros(_)
StripZeros(ds) ==
  IF ds # <<>> /\ Head(ds) = "0" THEN StripZeros(Tail(ds)) ELSE ds

\* the digits of the largest int
MaxIntDigits ==
  <<"9", "2", "2", "3", "3", "7", "2", "0", "3", "6", "8", "5", "4", "7", "7", "5", "8", "0", "7">>

\* whether strconv.Atoi fails on a string of digits: the value is out of range
AtoiFails(ds) ==
  LET t == StripZeros(ds)
  IN Len(t) > Len(MaxIntDigits) \/ (Len(t) = Len(MaxIntDigits) /\ StrLess(MaxIntDigits, t))

\* the value of a string of digits
RECURSIVE Atoi(_)
Atoi(ds) ==
  IF ds = <<>> THEN 0
  ELSE 10 * Atoi(SubSeq(ds, 1, Len(ds) - 1))
         + (CHOOSE v \in 0..9 : Itoa(v) = <<ds[Len(ds)]>>)

\* the zero value node{}
ZeroNode == [address |-> <<>>, sshPort |-> 0, mountPoint |-> <<>>, snapshotPath |-> <<>>]

\* the error of parseNode
InvalidNode(str) == [node |-> ZeroNode, err |-> NewError("invalid node: %s", str)]

\* parseNode(str): address, port and mount point of "address:port/mount" when
\* str matches ^([a-z0-9\-\.]+):([0-9]+)(\/[a-zA-Z0-9\-\.\/]+)$ and the port
\* is in the range of int
parseNode(str) ==
  LET colons == {i \in 1..Len(str) : str[i] = ":"}
  IN IF Cardinality(colons) # 1 THEN InvalidNode(str)
     ELSE LET c == CHOOSE i \in colons : TRUE
              address == SubSeq(str, 1, c - 1)
              rest == SubSeq(str, c + 1, Len(str))
              slashes == {i \in 1..Len(rest) : rest[i] = "/"}
          IN IF slashes = {} THEN InvalidNode(str)
             ELSE LET sl == CHOOSE i \in slashes : \A j \in slashes : i <= j
                      port == SubSeq(rest, 1, sl - 1)
                      mountPoint == SubSeq(rest, sl, Len(rest))
                  IN IF \/ address = <<>>
                        \/ Range(address) \ AddressChars # {}
                        \/ port = <<>>
                        \/ Range(port) \ Digits # {}
                        \/ Len(mountPoint) < 2
                        \/ Range(mountPoint) \ MountChars # {}
                     THEN InvalidNode(str)
                     ELSE IF AtoiFails(port) THEN InvalidNode(str)
                     ELSE [node |-> [address |-> address, sshPort |-> Atoi(port),
                                     mountPoint |-> mountPoint, snapshotPath |-> <<>>],
                           err |-> NoError]

W_host == <<"h", "o", "s", "t">>
W_localhost == <<"l", "o", "c", "a", "l", "h", "o", "s", "t">>
W_mnt == <<"/", "m", "n", "t">>

\* values of the flag -dst: a host with a port, the same with port 0 and with
\* a zero before the port, localhost with a port and with port 0, the node of
\* TestParseNode, and strings that are no node
NodeStrings ==
  { W_host \o <<":", "2", "2">> \o W_mnt,
    W_host \o <<":", "0">> \o W_mnt,
    W_host \o <<":", "0", "2", "2">> \o W_mnt,
    W_localhost \o <<":", "2", "2">> \o W_mnt,
    W_localhost \o <<":", "0">> \o W_mnt,
    <<"f", "o", "o", ".", "b", "a", "r", ":", "1", "2", "3", "/", "f", "i", "z", "z",
      "/", "b", "u", "z", "z">>,
    W_host \o W_mnt,
    W_host \o <<":", "2", "2">>,
    <<"H">> \o Tail(W_host) \o <<":", "2", "2">> \o W_mnt,
    W_host \o <<":">> \o MaxIntDigits \o <<"9">> \o W_mnt }

\* the commands built for a node
NodeOps == {"list", "send", "receive", "delete"}

\* the command op as it is built for the node n
CommandFor(op, n) ==
  CASE op = "list" -> ListCmd(n)
    [] op = "send" -> SendCmds(n, destination, Name2, Name1)[1]
    [] op = "receive" -> SendCmds(source, n, Name2, Name1)[2]
    [] op = "delete" -> DeleteCmd(n, <<Name2>>)

InitNode ==
  /\ pc = "node"
  /\ dryRun = FALSE
  /\ MainIdle
  /\ ListIdle
  /\ ExecIdle
  /\ unitIn \in [str : NodeStrings, op : NodeOps]
  /\ unitOut = [stage |-> "start", node |-> ZeroNode, err |-> NoError, cmd |-> <<>>]
  /\ unitDone = FALSE

\* the node is the source: main's literal, address "localhost" and sshPort 0
UseSource ==
  /\ pc = "node"
  /\ unitOut.stage = "start"
  /\ unitOut' = [unitOut EXCEPT !.stage = "node", !.node = source]
  /\ UNCHANGED <<mainVars, listVars, execVars, unitIn, unitDone>>

\* the node is the destination: destination, err := parseNode(*dst), and
\* log.Fatal(err) on an error
ParseNode ==
  /\ pc = "node"
  /\ unitOut.stage = "start"
  /\ LET parsed == parseNode(unitIn.str)
     IN /\ unitOut' = [unitOut EXCEPT !.stage = "node", !.node = parsed.node,
                                      !.err = parsed.err]
        /\ unitDone' = (parsed.err # NoError)
  /\ UNCHANGED <<mainVars, listVars, execVars, unitIn>>

\* the command unitIn.op is built for the node
IssueCommand ==
  /\ pc = "node"
  /\ unitOut.stage = "node"
  /\ ~unitDone
  /\ unitOut' = [unitOut EXCEPT !.stage = "cmd", !.cmd = CommandFor(unitIn.op, unitOut.node)]
  /\ unitDone' = TRUE
  /\ UNCHANGED <<mainVars, listVars, execVars, unitIn>>

NextNode ==
  \/ UseSource
  \/ ParseNode
  \/ IssueCommand

SpecNode == InitNode /\ [][NextNode]_vars

\* whether cmd is a command for the remote shell of the node n: ssh, the
\* port of n, the address of n, "--", and then a btrfs command
Wrapped(cmd, n) ==
  /\ Len(cmd) > 4
  /\ cmd[1] = W_ssh
  /\ cmd[2] = W_p \o Itoa(n.sshPort)
  /\ cmd[3] = n.address
  /\ cmd[4] = W_dashdash
  /\ cmd[5] = W_btrfs

\* whether cmd is a btrfs command run as it is
Unwrapped(cmd) == cmd # <<>> /\ cmd[1] = W_btrfs

\* C17 (amended): whenever the sshPort of a node is not 0, the list, send,
\* receive or delete command built for it is wrapped for the remote shell
\* with the node's address and port; a command is left unwrapped only for a
\* node whose sshPort is 0
C17_WrappedByPort ==
  (pc = "node" /\ unitOut.stage = "cmd") =>
    /\ unitOut.node.sshPort # 0 => Wrapped(unitOut.cmd, unitOut.node)
    /\ Unwrapped(unitOut.cmd) => unitOut.node.sshPort = 0
    /\ Wrapped(unitOut.cmd, unitOut.node) \/ Unwrapped(unitOut.cmd)

\* C17 as stated: whenever the address of a node is not "localhost", the
\* command built for it is wrapped for the remote shell with the node's
\* address and port; a command is left unwrapped only for a node whose
\* address is "localhost"
C17_WrappedByAddress ==
  (pc = "node" /\ unitOut.stage = "cmd") =>
    /\ unitOut.node.address # W_localhost => Wrapped(unitOut.cmd, unitOut.node)
    /\ Unwrapped(unitOut.cmd) => unitOut.node.address = W_localhost

\* the receive command has been built, wrapped, for the node of "host:22/mnt"
C17_Witness ==
  /\ pc = "node"
  /\ unitOut.stage = "cmd"
  /\ unitIn.op = "receive"
  /\ unitOut.node.address = W_host
  /\ unitOut.node.sshPort = 22
  /\ Wrapped(unitOut.cmd, unitOut.node)

(***************************************************************************)
(* The stages of a transfer, as TestTransmitSnapshots expects them.        *)
(***************************************************************************)
\* the option -C that the expected consumer command carries
W_C == <<"-", "C">>

\* <mount>/<snapshotPath>/<name> of the node n
SnapshotPathOf(n, name) == n.mountPoint \o <<"/">> \o n.snapshotPath \o <<"/">> \o name

\* the producer stage expected for the transfer t from the local source
ExpectedProducer(t) ==
  <<W_btrfs, W_send, W_quiet, W_p,
    SnapshotPathOf(source, t.parent), SnapshotPathOf(source, t.snapshot)>>

\* the consumer stage expected at the remote destination
ExpectedConsumer ==
  <<W_ssh, W_C, W_p \o Itoa(destination.sshPort), destination.address, W_dashdash,
    W_btrfs, W_receive, destination.mountPoint>>

\* C18: in a run that is no dry run, every transfer (snapshot, parent) from
\* the local source to the remote destination is one call of the source's
\* executor with two stages, the producer btrfs send --quiet -p
\* <mount>/<snapshotPath>/<parent> <mount>/<snapshotPath>/<snapshot> and the
\* consumer ssh -C -p<port> <address> -- btrfs receive <mount point>; and
\* when transmitSnapshots returns nil these are its only executor calls
C18_TransferStages ==
  ~dryRun =>
    /\ \A i \in 1..Len(sent) :
         /\ 2 + i <= Len(calls)
         /\ SendCall(i).executor = "source"
         /\ SendCall(i).cmds = <<ExpectedProducer(sent[i]), ExpectedConsumer>>
    /\ (returned /\ ret = NoError) => Len(TransmitCalls) = Len(sent)

(***************************************************************************)
(* formatBytes on its own.  A number of bytes is written in base 1024,    *)
(* most significant digit first, so that values up to 1024 TiB and more   *)
(* are within reach; the float bf is the pair of the digits before and    *)
(* after the point.  A float64 holds 53 bits: the inputs are the numbers  *)
(* whose digits fit into them, for which float64(b) and every division by *)
(* 1024 are exact.                                                         *)
(***************************************************************************)
\* the most base-1024 digits of an input
MaxDigits == 6

\* the divisor of formatBytes
Kibi == 1024

\* the base-1024 digits that fit into a float64 exactly
ExactDigits == 5

\* units := []string{"B", "kiB", "MiB", "GiB", "TiB"}
units == <<<<"B">>, <<"k", "i", "B">>, <<"M", "i", "B">>, <<"G", "i", "B">>, <<"T", "i", "B">>>>

\* the base-1024 digits the inputs are made of
DigitChoices == {0, 1, 10, 256, 512, Kibi - 1}

\* the inputs b >= 0: no leading zero, within the range of int (a seventh
\* digit is 1), and exact as float64 (zeros after the first ExactDigits digits)
FormatInputs ==
  {ds \in SeqsUpTo(DigitChoices, MaxDigits) :
     /\ Len(ds) >= 1
     /\ (Len(ds) > 1 => ds[1] # 0)
     /\ (Len(ds) > 6 => ds[1] = 1)
     /\ \A i \in (ExactDigits + 1)..Len(ds) : ds[i] = 0}

\* the value of a sequence of base-1024 digits
RECURSIVE DigitsValue(_)
DigitsValue(ds) ==
  IF ds = <<>> THEN 0 ELSE Kibi * DigitsValue(SubSeq(ds, 1, Len(ds) - 1)) + ds[Len(ds)]

\* bf := float64(b)
ToFloat(b) == [int |-> b, frac |-> <<>>]

\* bf /= 1024.0, for bf >= 1024
DivideByKibi(bf) ==
  [int |-> SubSeq(bf.int, 1, Len(bf.int) - 1),
   frac |-> <<bf.int[Len(bf.int)]>> \o bf.frac]

\* a loop that stops at the unit kiB
DividesFurtherOnce(base, bf) == base < 1 /\ Len(bf.int) >= 2

\* the condition of the loop: base < len(units)-1 && bf >= 1024
DividesFurther(base, bf) == base < Len(units) - 1 /\ Len(bf.int) >= 2

\* the loop of formatBytes: bf and base when it ends
RECURSIVE DivideLoop(_, _)
DivideLoop(bf, base) ==
  IF DividesFurther(base, bf) THEN DivideLoop(DivideByKibi(bf), base + 1)
  ELSE [bf |-> bf, base |-> base]

\* the fraction frac times the small number c: the integer part of the
\* product and the digits of its fraction
RECURSIVE MulFrac(_, _)
MulFrac(frac, c) ==
  IF frac = <<>> THEN [carry |-> 0, digits |-> <<>>]
  ELSE LET rest == MulFrac(Tail(frac), c)
           v == Head(frac) * c + rest.carry
       IN [carry |-> v \div Kibi, digits |-> <<v % Kibi>> \o rest.digits]

\* a fraction compared with one half: -1, 0 or 1
CompareHalf(frac) ==
  IF frac = <<>> THEN -1
  ELSE IF 2 * Head(frac) > Kibi THEN 1
  ELSE IF 2 * Head(frac) < Kibi THEN -1
  ELSE IF \E i \in 2..Len(frac) : frac[i] # 0 THEN 1
  ELSE 0

\* the %.1f of fmt.Sprintf: bf rounded to the nearest tenth, a tie to the
\* even tenth
SprintfF1(bf) ==
  LET m == MulFrac(bf.frac, 10)
      half == CompareHalf(m.digits)
      up == IF half > 0 \/ (half = 0 /\ m.carry % 2 = 1) THEN 1 ELSE 0
      tenth == m.carry + up
  IN Itoa(DigitsValue(bf.int) + tenth \div 10) \o <<".">> \o Itoa(tenth % 10)

\* formatBytes(b)
formatBytes(b) ==
  LET l == DivideLoop(ToFloat(b), 0)
  IN SprintfF1(l.bf) \o <<" ">> \o units[l.base + 1]

InitFormat ==
  /\ pc = "format"
  /\ dryRun = FALSE
  /\ MainIdle
  /\ ListIdle
  /\ ExecIdle
  /\ unitIn \in FormatInputs
  /\ unitOut = <<>>
  /\ unitDone = FALSE

\* unitOut := formatBytes(unitIn)
FormatBytes ==
  /\ pc = "format"
  /\ ~unitDone
  /\ unitOut' = formatBytes(unitIn)
  /\ unitDone' = TRUE
  /\ UNCHANGED <<mainVars, listVars, execVars, unitIn>>

NextFormat == FormatBytes

SpecFormat == InitFormat /\ [][NextFormat]_vars

\* the number of divisions by 1024 that leave a value of at least 1024 behind
\* before the last, at most 4: one less than the number of base-1024 digits
DivisionsOf(b) == IF Len(b) - 1 < 4 THEN Len(b) - 1 ELSE 4

\* whether d tenths are a nearest number of tenths to the fraction frac:
\* 2d - 1 <= 20 * frac <= 2d + 1
NearestTenth(d, frac) ==
  LET m == MulFrac(frac, 20)
      zero == \A i \in 1..Len(m.digits) : m.digits[i] = 0
  IN /\ 2 * d - 1 <= m.carry
     /\ m.carry < 2 * d + 1 \/ (m.carry = 2 * d + 1 /\ zero)

\* C19: formatBytes(b) is b / 1024^k with one decimal place, a space and the
\* k-th unit, k being the number of divisions by 1024 up to the cap of 4; and
\* the values of TestFormatBytes give the texts the test expects
C19_FormatBytes ==
  (pc = "format" /\ unitDone) =>
    LET k == DivisionsOf(unitIn)
        whole == DigitsValue(SubSeq(unitIn, 1, Len(unitIn) - k))
        frac == SubSeq(unitIn, Len(unitIn) - k + 1, Len(unitIn))
    IN /\ \E d \in 0..10 :
            /\ NearestTenth(d, frac)
            /\ unitOut = Itoa(whole + d \div 10) \o <<".">> \o Itoa(d % 10)
                           \o <<" ">> \o units[k + 1]
       /\ unitIn = <<0>> => unitOut = <<"0", ".", "0", " ", "B">>
       /\ unitIn = <<10>> => unitOut = <<"1", "0", ".", "0", " ", "B">>
       /\ unitIn = <<1023>> => unitOut = <<"1", "0", "2", "3", ".", "0", " ", "B">>
       /\ unitIn = <<1, 0>> => unitOut = <<"1", ".", "0", " ", "k", "i", "B">>
       /\ unitIn = <<1, 1>> => unitOut = <<"1", ".", "0", " ", "k", "i", "B">>
       /\ unitIn = <<1, 0, 0>> => unitOut = <<"1", ".", "0", " ", "M", "i", "B">>
       /\ unitIn = <<1, 0, 0, 0, 0, 0>> =>
            unitOut = <<"1", "0", "2", "4", ".", "0", " ", "T", "i", "B">>

\* formatBytes has returned "1024.0 TiB" for 2^50
C19_Witness ==
  /\ pc = "format"
  /\ unitDone
  /\ unitIn = <<1, 0, 0, 0, 0, 0>>
  /\ unitOut = <<"1", "0", "2", "4", ".", "0", " ", "T", "i", "B">>


\* ---------------------------------------------------------------------------
\* exec: termination

\* every stage of the pipeline was started
AllStarted == \A i \in 1..Len(started) : started[i]

\* a stage other than the first has ended with a failure
ConsumerFailed == \E i \in 2..Len(proc) : proc[i] = "failed"

\* C21: once the stages of the pipeline are started, exec eventually returns,
\* for every length of the producer's stream and a bounded pipe, also when a
\* consumer ends early with a failure while the producer has output to write
C21_ExecReturns ==
  (execPc = "wait" /\ AllStarted) ~> (execPc = "done")

\* exec returns whenever no consumer ends with a failure
ExecReturnsWhenDrained ==
  (<>ConsumerFailed) \/ ((execPc = "wait" /\ AllStarted) ~> (execPc = "done"))


\* ---------------------------------------------------------------------------
\* exec: the metering of the pipes

\* the number of bytes read so far from pipe p, 0 when the pipe was never made
BytesRead(p) == IF p \in DOMAIN drained THEN Len(drained[p]) ELSE 0

\* the last Read gave its caller what the pipe gave it
ReadPassedThrough ==
  /\ lastRead.got.data = lastRead.under.data
  /\ lastRead.got.n = lastRead.under.n
  /\ lastRead.got.err = lastRead.under.err

\* the total of every pipe is the number of bytes read from it
MeterCountsReads == \A p \in DOMAIN meter : meter[p] = BytesRead(p)

\* what exec returned as the byte count is right for one and for two stages
TransmittedIsRead ==
  execPc = "done" =>
    /\ Len(execCmds) = 2 => execRet.transmitted = BytesRead(1)
    /\ Len(execCmds) = 1 => execRet.transmitted = 0

\* no step lowers the total of a pipe
MeterGrows == \A p \in DOMAIN meter : p \in DOMAIN meter' /\ meter'[p] >= meter[p]

\* C22: a metered read returns the bytes, the count and the error of the read
\* of the pipe and adds the count to the total of the pipe, so that the total
\* never decreases, exec of two stages returns the number of bytes read from
\* the producer's output, and exec of one stage returns zero
C22_MeterCountsEveryByte ==
  /\ [](ReadPassedThrough /\ MeterCountsReads /\ TransmittedIsRead)
  /\ [][MeterGrows]_vars

\* exec of two stages has returned, the consumer having read the producer's
\* stream of more than one byte to its end
C22_Witness ==
  /\ execPc = "done"
  /\ Len(execCmds) = 2
  /\ execRet.transmitted >= 2
  /\ lastRead.pipe = 1
  /\ lastRead.under.err = EOFText


\* ---------------------------------------------------------------------------
\* transmitSnapshots: the rollback and the state of the destination

\* the names the calls of destination.deleteSnapshots were given
RollbackNames == UNION {Range(deleteRequests[i]) : i \in 1..Len(deleteRequests)}

\* C23: the rollback delete of transmitSnapshots names no snapshot that the
\* destination's listing held when the run started, whatever lists
\* getSnapshots returned.
C23_RollbackSparesInitial ==
  \A name \in RollbackNames : name \notin Range(destinationSnapshots)

\* the same for a source list that holds no identifier twice
RollbackSparesInitialOfSet ==
  StrictlyAscending(sourceSnapshots) => C23_RollbackSparesInitial


\* the loop of transmitSnapshots from position i of localSnapshots on, when
\* every sendSnapshot returns nil: the transfers it issues, in order
RECURSIVE transmitLoop(_, _, _, _)
transmitLoop(localSnapshots, i, mostRecent, previous) ==
  IF i > Len(localSnapshots) THEN <<>>
  ELSE IF previous = <<>>
  THEN transmitLoop(localSnapshots, i + 1, mostRecent,
                    FirstParent(localSnapshots[i], mostRecent))
  ELSE <<[snapshot |-> localSnapshots[i], parent |-> previous]>>
         \o transmitLoop(localSnapshots, i + 1, mostRecent,
                         NextParent(localSnapshots[i], previous))

\* the transfers a run of transmitSnapshots over the two lists issues when
\* none fails (remoteSnapshots is not empty)
transmitSnapshots(localSnapshots, remoteSnapshots) ==
  transmitLoop(localSnapshots, 1, remoteSnapshots[Len(remoteSnapshots)], <<>>)

\* the names of a set in ascending order: the listing a node with exactly
\* these snapshots gives once sort.Strings has sorted it
SortedListOf(S) ==
  CHOOSE l \in [1..Cardinality(S) -> S] : Range(l) = S /\ StrictlyAscending(l)

\* the number of transfers of the name that ended without an error
TimesTransferred(name) ==
  Cardinality({i \in 1..Len(sent) : sent[i].snapshot = name /\ SendSucceeded(i)})

\* transmitSnapshots has returned nil in a run that is no dry run, and the
\* newest snapshot of the destination's listing occurred in the source list
SucceededFromAnchor ==
  /\ returned /\ ret = NoError /\ ~dryRun
  /\ Anchor \in Range(sourceSnapshots)

\* C24: when transmitSnapshots returns nil in a run that is no dry run and the
\* anchor occurred in the source list, every source snapshot newer than the
\* anchor was transferred exactly once, the newest snapshot at the destination
\* is the newest source snapshot, and a second run over the source list and
\* the destination's new listing issues no transfer.
C24_CompleteAfterSuccess ==
  SucceededFromAnchor =>
    /\ \A name \in Range(sourceSnapshots) :
         StrLess(Anchor, name) => TimesTransferred(name) = 1
    /\ LET after == SortedListOf(dstFS)
       IN /\ after[Len(after)] = sourceSnapshots[Len(sourceSnapshots)]
          /\ transmitSnapshots(sourceSnapshots, after) = <<>>

\* the same for a source list that holds no identifier twice
CompleteAfterSuccessOfSet ==
  StrictlyAscending(sourceSnapshots) => C24_CompleteAfterSuccess

\* the pure loop issues what the run issued when the run returned nil
LoopAgreesWithRun ==
  (returned /\ ret = NoError) =>
    sent = transmitSnapshots(sourceSnapshots, destinationSnapshots)


\* the last transfer of the run failed, the rollback delete that followed
\* ended without an error, and transmitSnapshots has returned
RolledBack ==
  /\ pc = "exit" /\ returned
  /\ Len(sent) >= 1 /\ SendFailed(Len(sent))
  /\ Len(deleteRequests) = 1
  /\ calls[Len(calls)].executor = "destination"
  /\ calls[Len(calls)].err = NoError

\* the snapshots of the transfers of the run that ended without an error
Transferred == {sent[i].snapshot : i \in {j \in 1..Len(sent) : SendSucceeded(j)}}

\* C25: when a transfer failed and the rollback delete ended without an error,
\* the destination holds its initial snapshots and those of the transfers that
\* succeeded before and nothing else, the failed snapshot is absent, and the
\* newest snapshot at the destination is the parent of the failed transfer, an
\* element of the source list, from which a later run takes the failed
\* transfer up again.
C25_RollbackRestores ==
  RolledBack =>
    LET failed == sent[Len(sent)]
    IN /\ dstFS = Range(destinationSnapshots) \cup Transferred
       /\ failed.snapshot \notin dstFS
       /\ dstFS # {}
       /\ LET after == SortedListOf(dstFS)
              later == transmitSnapshots(sourceSnapshots, after)
          IN /\ after[Len(after)] = failed.parent
             /\ failed.parent \in Range(sourceSnapshots)
             /\ later # <<>>
             /\ later[1] = failed

\* the same for a source list that holds no identifier twice
RollbackRestoresOfSet ==
  StrictlyAscending(sourceSnapshots) => C25_RollbackRestores

=============================================================================
